---- MODULE Spec2Model ----
(***************************************************************************)
(* Access-control resolution functions of the multi-tenant schema          *)
(* (supabase/migrations/20260104163134_initial_schema.sql): the role       *)
(* hierarchy walks, the profile permission lookups, the sharing lookups,   *)
(* and the administrative writes that row-level security lets through.     *)
(*                                                                         *)
(* Identifiers (UUIDs in the schema) are positive integers; the SQL NULL   *)
(* is 0.  A table is a function whose DOMAIN is the set of primary keys    *)
(* present, or a set of rows where the key is a composite UNIQUE.          *)
(* A PL/pgSQL function result is one of the strings "true", "false",       *)
(* "error" (the call raised) and "diverge" (the recursive query never      *)
(* stops producing rows).                                                  *)
(***************************************************************************)
EXTENDS Integers, FiniteSets, Sequences, TLC

\* ------------------------------------------------------------------ bounds
MaxRoles == 3
MaxRecords == 2
MaxRows == 1

NULL == 0

RoleIds == 1..MaxRoles
RecordIds == 1..MaxRecords
OrgIds == {1, 2}
UserIds == {1, 2, 3}
ProfileIds == {1, 2, 3}
ObjectNames == {"accounts", "invoices"}
FieldNames == {"name", "amount"}
PermissionTypes == {"create", "read", "update", "delete", "purge"}
FieldPermissionTypes == {"read", "edit", "purge"}
DefaultAccessValues == {"private", "public_read_only", "public_read_write"}
AccessLevels == {"read", "read_write"}
RuleTypes == {"criteria_based", "ownership_based"}
VariableConflictModes == {"error", "use_variable", "use_column"}

\* ------------------------------------------------------------------ state
VARIABLES
    variable_conflict,          \* plpgsql.variable_conflict of the database
    session,                    \* auth.uid() and the JWT app_metadata claims
    profiles,                   \* system.profiles
    users,                      \* system.users
    roles,                      \* system.roles
    profile_object_permissions, \* system.profile_object_permissions
    profile_field_permissions,  \* system.profile_field_permissions
    org_wide_defaults,          \* system.org_wide_defaults
    sharing_rules,              \* system.sharing_rules
    manual_shares,              \* system.manual_shares
    ret,                        \* the last function evaluation and its result
    walk,                       \* the recursive query being evaluated row by row
    txn,                        \* role updates issued and not yet executed
    organizations,              \* system.organizations
    app_metadata,               \* auth.users.raw_app_meta_data, by user id
    deletion_batches,           \* recycle.deletion_batches
    deleted_records             \* recycle.deleted_records

identity == <<variable_conflict, session, profiles, users, organizations, app_metadata>>
permTables == <<profile_object_permissions, profile_field_permissions>>
shareTables == <<org_wide_defaults, sharing_rules, manual_shares>>
recycle == <<deletion_batches, deleted_records>>
vars == <<variable_conflict, session, profiles, users, roles,
          profile_object_permissions, profile_field_permissions,
          org_wide_defaults, sharing_rules, manual_shares, ret, walk, txn,
          organizations, app_metadata, deletion_batches, deleted_records>>

NoCall == [fn |-> "none"]
NoWalk == [fn |-> "none", status |-> "idle"]
NoTxn == [t \in {1, 2} |-> [phase |-> "idle"]]

\* ------------------------------------------------------------- the session
\* auth.uid(): the id of the signed-in user, NULL without a session.
auth_uid == session.uid

\* system.current_user_is_system_admin(): the profile named in the JWT is a
\* profile called 'System Administrator' (of any organization).
current_user_is_system_admin ==
    \E p \in DOMAIN profiles :
        /\ p = session.profile_id
        /\ profiles[p].profile_name = "System Administrator"

\* The JWT a user signs in with carries the org_id and profile_id of the
\* user's app_metadata, which handle_user_org_metadata copied from the
\* system.users row when the row was inserted.
Login(u) ==
    /\ u \in DOMAIN users
    /\ session' = [uid |-> u, org_id |-> app_metadata[u].org_id,
                   profile_id |-> app_metadata[u].profile_id]
    /\ ret' = NoCall
    /\ UNCHANGED <<recycle, organizations, app_metadata, variable_conflict,
                   profiles, users, roles, permTables, shareTables, walk, txn>>

Logout ==
    /\ session.uid # NULL
    /\ session' = [uid |-> NULL, org_id |-> NULL, profile_id |-> NULL]
    /\ ret' = NoCall
    /\ UNCHANGED <<recycle, organizations, app_metadata, variable_conflict,
                   profiles, users, roles, permTables, shareTables, walk, txn>>

\* ---------------------------------------------------------- role hierarchy
\* A row of the recursive CTE role_tree(role_id, parent_role_id).
\*
\* Both walks are PL/pgSQL functions with a parameter called parent_role_id,
\* which is also a column of system.roles and of role_tree.  An unqualified
\* parent_role_id inside the query is resolved by plpgsql.variable_conflict:
\* "error" (PostgreSQL's default) raises "column reference is ambiguous" when
\* the query is first planned, "use_variable" reads the parameter,
\* "use_column" reads the column.  r.parent_role_id and rt.parent_role_id are
\* qualified and always the column.  child_role_id is no column, so it is
\* always the parameter.

\* is_role_above, non-recursive term:
\*   SELECT role_id, parent_role_id FROM system.roles WHERE role_id = child_role_id
RoleAboveBase(parent_role_id, child_role_id) ==
    { [role_id |-> r,
       parent_role_id |-> IF variable_conflict = "use_variable"
                          THEN parent_role_id
                          ELSE roles[r].parent_role_id]
      : r \in {x \in DOMAIN roles : x = child_role_id} }

\* is_role_above, recursive term:
\*   SELECT r.role_id, r.parent_role_id FROM system.roles r
\*   JOIN role_tree rt ON r.role_id = rt.parent_role_id
RoleAboveStep(work) ==
    { [role_id |-> r, parent_role_id |-> roles[r].parent_role_id]
      : r \in {x \in DOMAIN roles : \E rt \in work : x = rt.parent_role_id} }

\* is_role_above, outer query:  SELECT 1 FROM role_tree WHERE role_id = parent_role_id
RoleAboveMatch(row, parent_role_id) ==
    IF variable_conflict = "use_column"
    THEN row.parent_role_id # NULL /\ row.role_id = row.parent_role_id
    ELSE parent_role_id # NULL /\ row.role_id = parent_role_id

\* is_subordinate_of, non-recursive term:
\*   SELECT role_id, parent_role_id FROM system.roles WHERE role_id = parent_role_id
SubordinateBase(child_role_id, parent_role_id) ==
    IF variable_conflict = "use_variable"
    THEN { [role_id |-> r, parent_role_id |-> parent_role_id]
           : r \in {x \in DOMAIN roles : x = parent_role_id} }
    ELSE { [role_id |-> r, parent_role_id |-> roles[r].parent_role_id]
           : r \in {x \in DOMAIN roles :
                      roles[x].parent_role_id # NULL /\ x = roles[x].parent_role_id} }

\* is_subordinate_of, recursive term:
\*   SELECT r.role_id, r.parent_role_id FROM system.roles r
\*   JOIN role_tree rt ON r.parent_role_id = rt.role_id
SubordinateStep(work) ==
    { [role_id |-> r, parent_role_id |-> roles[r].parent_role_id]
      : r \in {x \in DOMAIN roles : \E rt \in work : roles[x].parent_role_id = rt.role_id} }

\* is_subordinate_of, outer query:  SELECT 1 FROM role_tree WHERE role_id = child_role_id
SubordinateMatch(row, child_role_id) ==
    child_role_id # NULL /\ row.role_id = child_role_id

\* EXISTS over a recursive CTE (UNION ALL, no CYCLE clause, no depth cap):
\* rows are produced one iteration at a time and the scan stops at the first
\* row that matches; without a match it ends when an iteration adds no row.
\* An iteration that reproduces an earlier non-empty working table without a
\* match will do so for ever.
RECURSIVE RoleAboveWalk(_, _, _)
RoleAboveWalk(work, seen, parent_role_id) ==
    IF \E row \in work : RoleAboveMatch(row, parent_role_id) THEN "true"
    ELSE IF work = {} THEN "false"
    ELSE IF work \in seen THEN "diverge"
    ELSE RoleAboveWalk(RoleAboveStep(work), seen \cup {work}, parent_role_id)

RECURSIVE SubordinateWalk(_, _, _)
SubordinateWalk(work, seen, child_role_id) ==
    IF \E row \in work : SubordinateMatch(row, child_role_id) THEN "true"
    ELSE IF work = {} THEN "false"
    ELSE IF work \in seen THEN "diverge"
    ELSE SubordinateWalk(SubordinateStep(work), seen \cup {work}, child_role_id)

\* system.is_role_above(parent_role_id, child_role_id)
is_role_above(parent_role_id, child_role_id) ==
    IF variable_conflict = "error" THEN "error"
    ELSE RoleAboveWalk(RoleAboveBase(parent_role_id, child_role_id), {}, parent_role_id)

\* system.is_subordinate_of(child_role_id, parent_role_id)
is_subordinate_of(child_role_id, parent_role_id) ==
    IF variable_conflict = "error" THEN "error"
    ELSE SubordinateWalk(SubordinateBase(child_role_id, parent_role_id), {}, child_role_id)

\* ------------------------------------------------------- writes to roles
\* Writes reach system.roles only through the policy "System Administrators
\* have full access to roles" (FOR ALL, USING current_user_is_system_admin()).
\* The table itself enforces: the primary key, the foreign keys of org_id
\* to an organization and of parent_role_id to an existing role (of any
\* organization), and CHECK (role_id != parent_role_id).
\* No trigger or constraint reads the ancestor chain.
RoleRowValid(r, p) ==
    /\ p \in DOMAIN roles \cup {NULL}
    /\ r # p

InsertRole(r, o, p) ==
    /\ current_user_is_system_admin
    /\ walk.status = "idle"
    /\ r \notin DOMAIN roles
    /\ o \in organizations
    /\ RoleRowValid(r, p)
    /\ roles' = [x \in DOMAIN roles \cup {r} |->
                    IF x = r THEN [org_id |-> o, parent_role_id |-> p] ELSE roles[x]]
    /\ ret' = NoCall
    /\ UNCHANGED <<recycle, identity, permTables, shareTables, walk, txn>>

\* UPDATE system.roles SET parent_role_id = p WHERE role_id = r
RolesAfterUpdate(r, p) == [roles EXCEPT ![r].parent_role_id = p]

UpdateRoleParent(r, p) ==
    /\ current_user_is_system_admin
    /\ walk.status = "idle"
    /\ r \in DOMAIN roles
    /\ RoleRowValid(r, p)
    /\ roles' = RolesAfterUpdate(r, p)
    /\ ret' = NoCall
    /\ UNCHANGED <<recycle, identity, permTables, shareTables, walk, txn>>

\* ------------------------------------------- calls of the hierarchy walks
CallIsRoleAbove(p, c) ==
    /\ walk.status = "idle"
    /\ ret' = [fn |-> "is_role_above", parent_role_id |-> p, child_role_id |-> c,
               result |-> is_role_above(p, c)]
    /\ UNCHANGED <<recycle, identity, roles, permTables, shareTables, walk, txn>>

CallIsSubordinateOf(c, p) ==
    /\ walk.status = "idle"
    /\ ret' = [fn |-> "is_subordinate_of", child_role_id |-> c, parent_role_id |-> p,
               result |-> is_subordinate_of(c, p)]
    /\ UNCHANGED <<recycle, identity, roles, permTables, shareTables, walk, txn>>

\* ------------------------------------ the walks, one CTE iteration a step
\* The executor's view of the same two queries: the working table of the
\* current iteration, scanned for a match before the next iteration is built.
\* The function is STABLE: it reads one snapshot, so no write to system.roles
\* is visible to it while it runs.
WalkStart(fn, p, c) ==
    /\ walk.status = "idle"
    /\ walk' = IF variable_conflict = "error"
               THEN [fn |-> fn, parent_role_id |-> p, child_role_id |-> c,
                     work |-> {}, status |-> "error"]
               ELSE [fn |-> fn, parent_role_id |-> p, child_role_id |-> c,
                     work |-> IF fn = "is_role_above"
                              THEN RoleAboveBase(p, c)
                              ELSE SubordinateBase(c, p),
                     status |-> "running"]
    /\ ret' = NoCall
    /\ UNCHANGED <<recycle, identity, roles, permTables, shareTables, txn>>

WalkMatch(row) ==
    IF walk.fn = "is_role_above"
    THEN RoleAboveMatch(row, walk.parent_role_id)
    ELSE SubordinateMatch(row, walk.child_role_id)

WalkStep ==
    /\ walk.status = "running"
    /\ walk' = IF \E row \in walk.work : WalkMatch(row)
               THEN [walk EXCEPT !.status = "true"]
               ELSE IF walk.work = {}
               THEN [walk EXCEPT !.status = "false"]
               ELSE [walk EXCEPT !.work = IF walk.fn = "is_role_above"
                                          THEN RoleAboveStep(walk.work)
                                          ELSE SubordinateStep(walk.work)]
    /\ UNCHANGED <<recycle, identity, roles, permTables, shareTables, ret, txn>>

WalkReturn ==
    /\ walk.status \in {"true", "false", "error"}
    /\ walk' = NoWalk
    /\ ret' = [fn |-> walk.fn, parent_role_id |-> walk.parent_role_id,
               child_role_id |-> walk.child_role_id, result |-> walk.status]
    /\ UNCHANGED <<recycle, identity, roles, permTables, shareTables, txn>>

\* --------------------------------- two sessions updating roles concurrently
\* Each session sends one UPDATE of parent_role_id; the statements execute in
\* either order.  alone_acyclic records, when the statement is sent, whether
\* applying it to the table as it then stands would leave the graph acyclic.
RECURSIVE ChainHits(_, _, _, _)
ChainHits(tbl, from, target, fuel) ==
    IF from = NULL \/ from \notin DOMAIN tbl \/ fuel = 0 THEN FALSE
    ELSE IF tbl[from].parent_role_id = target THEN TRUE
    ELSE ChainHits(tbl, tbl[from].parent_role_id, target, fuel - 1)

\* r is reachable from itself along parent pointers of tbl.
OnCycle(tbl, r) == ChainHits(tbl, r, r, Cardinality(DOMAIN tbl))
Acyclic(tbl) == \A r \in DOMAIN tbl : ~OnCycle(tbl, r)

IssueRoleUpdate(t, r, p) ==
    /\ current_user_is_system_admin
    /\ txn[t].phase = "idle"
    /\ r \in DOMAIN roles
    /\ RoleRowValid(r, p)
    /\ txn' = [txn EXCEPT ![t] = [phase |-> "issued", role_id |-> r, parent_role_id |-> p,
                                  alone_acyclic |-> Acyclic(RolesAfterUpdate(r, p))]]
    /\ UNCHANGED <<recycle, identity, roles, permTables, shareTables, ret, walk>>

ExecuteRoleUpdate(t) ==
    /\ txn[t].phase = "issued"
    /\ current_user_is_system_admin
    /\ txn[t].role_id \in DOMAIN roles
    /\ RoleRowValid(txn[t].role_id, txn[t].parent_role_id)
    /\ roles' = RolesAfterUpdate(txn[t].role_id, txn[t].parent_role_id)
    /\ txn' = [txn EXCEPT ![t].phase = "committed"]
    /\ ret' = NoCall
    /\ UNCHANGED <<recycle, identity, permTables, shareTables, walk>>

\* -------------------------------------------------- profile permissions
\* A row of system.profile_object_permissions is
\*   [profile_id, object_name, can_create, can_read, can_update, can_delete],
\* UNIQUE (profile_id, object_name); a row of system.profile_field_permissions
\*   [profile_id, object_name, field_name, can_read, can_edit],
\* UNIQUE (profile_id, object_name, field_name).  The flags are booleans here;
\* a NULL flag fails "flag = true" exactly as false does.

\* SELECT profile_id INTO user_profile_id FROM system.users WHERE user_id = u
ProfileOfUser(u) == IF u \in DOMAIN users THEN users[u].profile_id ELSE NULL

\* IF checking_user_id != auth.uid() THEN RETURN FALSE: with either side NULL
\* the comparison is NULL and the branch is not taken.
NotCurrentUser(checking_user_id) ==
    /\ checking_user_id # NULL
    /\ auth_uid # NULL
    /\ checking_user_id # auth_uid

has_object_permission_default_read(checking_user_id, object_name, permission_type) ==
    IF NotCurrentUser(checking_user_id) THEN "false"
    ELSE IF ProfileOfUser(checking_user_id) = NULL THEN "false"
    ELSE IF \/ \E row \in profile_object_permissions :
                 /\ row.profile_id = ProfileOfUser(checking_user_id)
                 /\ row.object_name = object_name
                 /\ \/ (permission_type = "create" /\ row.can_create)
                    \/ (permission_type = "read" /\ row.can_read)
                    \/ (permission_type = "update" /\ row.can_update)
                    \/ (permission_type = "delete" /\ row.can_delete)
            \/ /\ permission_type = "read"
               /\ ~\E row \in profile_object_permissions :
                     /\ row.profile_id = ProfileOfUser(checking_user_id)
                     /\ row.object_name = object_name
    THEN "true" ELSE "false"

has_object_permission_any_flag(checking_user_id, object_name, permission_type) ==
    IF NotCurrentUser(checking_user_id) THEN "false"
    ELSE IF ProfileOfUser(checking_user_id) = NULL THEN "false"
    ELSE IF \E row \in profile_object_permissions :
                 /\ row.profile_id = ProfileOfUser(checking_user_id)
                 /\ row.object_name = object_name
                 /\ (row.can_create \/ row.can_read \/ row.can_update \/ row.can_delete)
    THEN "true" ELSE "false"

has_object_permission_read_grants_create(checking_user_id, object_name, permission_type) ==
    IF NotCurrentUser(checking_user_id) THEN "false"
    ELSE IF ProfileOfUser(checking_user_id) = NULL THEN "false"
    ELSE IF \E row \in profile_object_permissions :
                 /\ row.profile_id = ProfileOfUser(checking_user_id)
                 /\ row.object_name = object_name
                 /\ \/ (permission_type = "create" /\ (row.can_create \/ row.can_read))
                    \/ (permission_type = "read" /\ row.can_read)
                    \/ (permission_type = "update" /\ row.can_update)
                    \/ (permission_type = "delete" /\ row.can_delete)
    THEN "true" ELSE "false"

has_object_permission_unknown_as_read(checking_user_id, object_name, permission_type) ==
    IF NotCurrentUser(checking_user_id) THEN "false"
    ELSE IF ProfileOfUser(checking_user_id) = NULL THEN "false"
    ELSE IF \E row \in profile_object_permissions :
                 /\ row.profile_id = ProfileOfUser(checking_user_id)
                 /\ row.object_name = object_name
                 /\ \/ (permission_type = "create" /\ row.can_create)
                    \/ (permission_type = "update" /\ row.can_update)
                    \/ (permission_type = "delete" /\ row.can_delete)
                    \/ (permission_type \notin {"create", "update", "delete"}
                        /\ row.can_read)
    THEN "true" ELSE "false"

\* system.has_object_permission(checking_user_id, object_name, permission_type)
has_object_permission(checking_user_id, object_name, permission_type) ==
    IF NotCurrentUser(checking_user_id) THEN "false"
    ELSE IF ProfileOfUser(checking_user_id) = NULL THEN "false"
    ELSE IF \E row \in profile_object_permissions :
                 /\ row.profile_id = ProfileOfUser(checking_user_id)
                 /\ row.object_name = object_name
                 /\ \/ (permission_type = "create" /\ row.can_create)
                    \/ (permission_type = "read" /\ row.can_read)
                    \/ (permission_type = "update" /\ row.can_update)
                    \/ (permission_type = "delete" /\ row.can_delete)
    THEN "true" ELSE "false"

has_field_permission_any_field(checking_user_id, object_name, field_name, permission_type) ==
    IF NotCurrentUser(checking_user_id) THEN "false"
    ELSE IF ProfileOfUser(checking_user_id) = NULL THEN "false"
    ELSE IF \E row \in profile_field_permissions :
                 /\ row.profile_id = ProfileOfUser(checking_user_id)
                 /\ row.object_name = object_name
                 /\ \/ (permission_type = "read" /\ row.can_read)
                    \/ (permission_type = "edit" /\ row.can_edit)
    THEN "true" ELSE "false"

\* system.has_field_permission(checking_user_id, object_name, field_name, permission_type)
has_field_permission(checking_user_id, object_name, field_name, permission_type) ==
    IF NotCurrentUser(checking_user_id) THEN "false"
    ELSE IF ProfileOfUser(checking_user_id) = NULL THEN "false"
    ELSE IF \E row \in profile_field_permissions :
                 /\ row.profile_id = ProfileOfUser(checking_user_id)
                 /\ row.object_name = object_name
                 /\ row.field_name = field_name
                 /\ \/ (permission_type = "read" /\ row.can_read)
                    \/ (permission_type = "edit" /\ row.can_edit)
    THEN "true" ELSE "false"

get_visible_fields_editable(checking_user_id, object_name) ==
    IF NotCurrentUser(checking_user_id) THEN {}
    ELSE IF ProfileOfUser(checking_user_id) = NULL THEN {}
    ELSE {row.field_name : row \in
             {r \in profile_field_permissions :
                 /\ r.profile_id = ProfileOfUser(checking_user_id)
                 /\ r.object_name = object_name
                 /\ (r.can_read \/ r.can_edit)}}

get_visible_fields_object_fallback(checking_user_id, object_name) ==
    IF NotCurrentUser(checking_user_id) THEN {}
    ELSE IF ProfileOfUser(checking_user_id) = NULL THEN {}
    ELSE IF /\ has_object_permission(checking_user_id, object_name, "read") = "true"
            /\ ~\E r \in profile_field_permissions :
                  /\ r.profile_id = ProfileOfUser(checking_user_id)
                  /\ r.object_name = object_name
    THEN FieldNames
    ELSE {row.field_name : row \in
             {r \in profile_field_permissions :
                 /\ r.profile_id = ProfileOfUser(checking_user_id)
                 /\ r.object_name = object_name
                 /\ r.can_read}}

\* system.get_visible_fields(checking_user_id, object_name): the TEXT[] of the
\* field names, taken as a set (the query has no ORDER BY and UNIQUE
\* (profile_id, object_name, field_name) admits no repetition).
get_visible_fields(checking_user_id, object_name) ==
    IF NotCurrentUser(checking_user_id) THEN {}
    ELSE IF ProfileOfUser(checking_user_id) = NULL THEN {}
    ELSE {row.field_name : row \in
             {r \in profile_field_permissions :
                 /\ r.profile_id = ProfileOfUser(checking_user_id)
                 /\ r.object_name = object_name
                 /\ r.can_read}}

\* Writes reach both tables only through the System Administrator policies
\* (FOR ALL, USING current_user_is_system_admin()); profile_id is a foreign
\* key to system.profiles.
ObjectPermissionRow(p, o) ==
    {row \in profile_object_permissions : row.profile_id = p /\ row.object_name = o}

InsertObjectPermission(p, o, cc, cr, cu, cd) ==
    /\ current_user_is_system_admin
    /\ p \in DOMAIN profiles
    /\ ObjectPermissionRow(p, o) = {}
    /\ Cardinality(profile_object_permissions) < MaxRows
    /\ profile_object_permissions' = profile_object_permissions \cup
          {[profile_id |-> p, object_name |-> o, can_create |-> cc, can_read |-> cr,
            can_update |-> cu, can_delete |-> cd]}
    /\ ret' = NoCall
    /\ UNCHANGED <<recycle, identity, roles, profile_field_permissions, shareTables, walk, txn>>

UpdateObjectPermission(p, o, cc, cr, cu, cd) ==
    /\ current_user_is_system_admin
    /\ ObjectPermissionRow(p, o) # {}
    /\ profile_object_permissions' =
          (profile_object_permissions \ ObjectPermissionRow(p, o)) \cup
          {[profile_id |-> p, object_name |-> o, can_create |-> cc, can_read |-> cr,
            can_update |-> cu, can_delete |-> cd]}
    /\ ret' = NoCall
    /\ UNCHANGED <<recycle, identity, roles, profile_field_permissions, shareTables, walk, txn>>

DeleteObjectPermission(p, o) ==
    /\ current_user_is_system_admin
    /\ ObjectPermissionRow(p, o) # {}
    /\ profile_object_permissions' = profile_object_permissions \ ObjectPermissionRow(p, o)
    /\ ret' = NoCall
    /\ UNCHANGED <<recycle, identity, roles, profile_field_permissions, shareTables, walk, txn>>

FieldPermissionRow(p, o, f) ==
    {row \in profile_field_permissions :
        row.profile_id = p /\ row.object_name = o /\ row.field_name = f}

InsertFieldPermission(p, o, f, cr, ce) ==
    /\ current_user_is_system_admin
    /\ p \in DOMAIN profiles
    /\ FieldPermissionRow(p, o, f) = {}
    /\ Cardinality(profile_field_permissions) < MaxRows
    /\ profile_field_permissions' = profile_field_permissions \cup
          {[profile_id |-> p, object_name |-> o, field_name |-> f,
            can_read |-> cr, can_edit |-> ce]}
    /\ ret' = NoCall
    /\ UNCHANGED <<recycle, identity, roles, profile_object_permissions, shareTables, walk, txn>>

UpdateFieldPermission(p, o, f, cr, ce) ==
    /\ current_user_is_system_admin
    /\ FieldPermissionRow(p, o, f) # {}
    /\ profile_field_permissions' =
          (profile_field_permissions \ FieldPermissionRow(p, o, f)) \cup
          {[profile_id |-> p, object_name |-> o, field_name |-> f,
            can_read |-> cr, can_edit |-> ce]}
    /\ ret' = NoCall
    /\ UNCHANGED <<recycle, identity, roles, profile_object_permissions, shareTables, walk, txn>>

DeleteFieldPermission(p, o, f) ==
    /\ current_user_is_system_admin
    /\ FieldPermissionRow(p, o, f) # {}
    /\ profile_field_permissions' = profile_field_permissions \ FieldPermissionRow(p, o, f)
    /\ ret' = NoCall
    /\ UNCHANGED <<recycle, identity, roles, profile_object_permissions, shareTables, walk, txn>>

CallHasObjectPermission(u, o, t) ==
    /\ ret' = [fn |-> "has_object_permission", checking_user_id |-> u, object_name |-> o,
               permission_type |-> t, result |-> has_object_permission(u, o, t)]
    /\ UNCHANGED <<recycle, identity, roles, permTables, shareTables, walk, txn>>

CallGetVisibleFields(u, o) ==
    /\ ret' = [fn |-> "get_visible_fields", checking_user_id |-> u, object_name |-> o,
               result |-> get_visible_fields(u, o)]
    /\ UNCHANGED <<recycle, identity, roles, permTables, shareTables, walk, txn>>

CallHasFieldPermission(u, o, f, t) ==
    /\ ret' = [fn |-> "has_field_permission", checking_user_id |-> u, object_name |-> o,
               field_name |-> f, permission_type |-> t,
               result |-> has_field_permission(u, o, f, t)]
    /\ UNCHANGED <<recycle, identity, roles, permTables, shareTables, walk, txn>>

\* ------------------------------------------------------- record sharing
\* Rows: system.org_wide_defaults [org_id, object_name, default_access],
\* UNIQUE (org_id, object_name); system.sharing_rules [org_id, object_name,
\* rule_name, rule_type, shared_to_role_id, include_subordinates, access_level,
\* is_active, scan_pos], UNIQUE (org_id, object_name, rule_name) (criteria
\* and owner_role_id are stored and read by no function; scan_pos is the rank
\* of the row's place in the table's heap, 1 for the row a scan meets first);
\* system.manual_shares
\* [org_id, object_name, record_id, shared_by_user_id, shared_to_user_id,
\* access_level], UNIQUE (object_name, record_id, shared_to_user_id).

\* SELECT role_id FROM system.users WHERE user_id = u
RoleOfUser(u) == IF u \in DOMAIN users THEN users[u].role_id ELSE NULL
OrgOfUser(u) == IF u \in DOMAIN users THEN users[u].org_id ELSE NULL

can_access_via_role_no_owner_check(checking_user_id, record_owner_id) ==
    IF RoleOfUser(checking_user_id) = NULL \/ RoleOfUser(record_owner_id) = NULL
    THEN "false"
    ELSE is_role_above(RoleOfUser(checking_user_id), RoleOfUser(record_owner_id))

\* system.can_access_via_role(checking_user_id, record_owner_id)
can_access_via_role(checking_user_id, record_owner_id) ==
    IF checking_user_id # NULL /\ checking_user_id = record_owner_id THEN "true"
    ELSE IF RoleOfUser(checking_user_id) = NULL \/ RoleOfUser(record_owner_id) = NULL
    THEN "false"
    ELSE is_role_above(RoleOfUser(checking_user_id), RoleOfUser(record_owner_id))

get_owd_access_any_object(checking_org_id, object_name) ==
    IF \E row \in org_wide_defaults : row.org_id = checking_org_id
    THEN (CHOOSE row \in org_wide_defaults : row.org_id = checking_org_id).default_access
    ELSE "null"

\* system.get_owd_access(checking_org_id, object_name): the stored value, or
\* the SQL NULL (here "null") when (org, object) has no row.
get_owd_access(checking_org_id, object_name) ==
    IF \E row \in org_wide_defaults :
          row.org_id = checking_org_id /\ row.object_name = object_name
    THEN (CHOOSE row \in org_wide_defaults :
             row.org_id = checking_org_id /\ row.object_name = object_name).default_access
    ELSE "null"

SharingRuleRow_ignoring_is_active(sr, user_role_id, user_org_id, object_name) ==
    IF ~(sr.org_id = user_org_id /\ sr.object_name = object_name)
    THEN "false"
    ELSE IF sr.shared_to_role_id # NULL /\ sr.shared_to_role_id = user_role_id
    THEN "true"
    ELSE IF ~sr.include_subordinates THEN "false"
    ELSE is_subordinate_of(user_role_id, sr.shared_to_role_id)

\* What the WHERE clause of has_sharing_rule_access makes of one rule: the
\* cheap column tests, then the role match, then (only if include_subordinates
\* and the role does not match) the call of is_subordinate_of, whose error or
\* divergence is the query's.
SharingRuleRow(sr, user_role_id, user_org_id, object_name) ==
    IF ~(sr.org_id = user_org_id /\ sr.object_name = object_name /\ sr.is_active)
    THEN "false"
    ELSE IF sr.shared_to_role_id # NULL /\ sr.shared_to_role_id = user_role_id
    THEN "true"
    ELSE IF ~sr.include_subordinates THEN "false"
    ELSE is_subordinate_of(user_role_id, sr.shared_to_role_id)

\* system.has_sharing_rule_access(checking_user_id, record_owner_id, object_name):
\* the EXISTS scans sharing_rules in heap order and the first rule that
\* matches, raises or diverges decides.  record_owner_id is not read.
has_sharing_rule_access(checking_user_id, record_owner_id, object_name) ==
    IF RoleOfUser(checking_user_id) = NULL THEN "false"
    ELSE LET deciding == { sr \in sharing_rules :
                             SharingRuleRow(sr, RoleOfUser(checking_user_id),
                                            OrgOfUser(checking_user_id), object_name)
                                # "false" }
         IN IF deciding = {} THEN "false"
            ELSE SharingRuleRow(CHOOSE sr \in deciding :
                                    \A other \in deciding : sr.scan_pos <= other.scan_pos,
                                RoleOfUser(checking_user_id),
                                OrgOfUser(checking_user_id), object_name)

has_manual_share_any_record(checking_user_id, record_id, object_name) ==
    IF \E row \in manual_shares :
          /\ row.shared_to_user_id = checking_user_id
          /\ row.object_name = object_name
    THEN "true" ELSE "false"

\* system.has_manual_share(checking_user_id, record_id, object_name)
has_manual_share(checking_user_id, record_id, object_name) ==
    IF \E row \in manual_shares :
          /\ row.shared_to_user_id = checking_user_id
          /\ row.record_id = record_id
          /\ row.object_name = object_name
    THEN "true" ELSE "false"

\* Writes, all through the System Administrator policies (FOR ALL).
\* users.role_id is a foreign key to system.roles.
UpdateUserRole(u, r) ==
    /\ current_user_is_system_admin
    /\ u \in DOMAIN users
    /\ r \in DOMAIN roles \cup {NULL}
    /\ users' = [users EXCEPT ![u].role_id = r]
    /\ ret' = NoCall
    /\ UNCHANGED <<recycle, organizations, app_metadata, variable_conflict,
                   session, profiles, roles, permTables, shareTables, walk, txn>>

OrgWideDefaultRow(o, obj) ==
    {row \in org_wide_defaults : row.org_id = o /\ row.object_name = obj}

\* INSERT, or UPDATE of default_access, of the row of (org, object).
SetOrgWideDefault(o, obj, v) ==
    /\ current_user_is_system_admin
    /\ o \in organizations
    /\ v \in DefaultAccessValues
    /\ OrgWideDefaultRow(o, obj) # {} \/ Cardinality(org_wide_defaults) < MaxRows
    /\ org_wide_defaults' = (org_wide_defaults \ OrgWideDefaultRow(o, obj)) \cup
          {[org_id |-> o, object_name |-> obj, default_access |-> v]}
    /\ ret' = NoCall
    /\ UNCHANGED <<recycle, identity, roles, permTables, sharing_rules, manual_shares, walk, txn>>

DeleteOrgWideDefault(o, obj) ==
    /\ current_user_is_system_admin
    /\ OrgWideDefaultRow(o, obj) # {}
    /\ org_wide_defaults' = org_wide_defaults \ OrgWideDefaultRow(o, obj)
    /\ ret' = NoCall
    /\ UNCHANGED <<recycle, identity, roles, permTables, sharing_rules, manual_shares, walk, txn>>

SharingRuleNamed(o, obj, name) ==
    {row \in sharing_rules :
        row.org_id = o /\ row.object_name = obj /\ row.rule_name = name}

\* A new row, or the new version of an updated row, goes to any free place of
\* the heap: it takes any rank k, and the rows from rank k on come after it.
PlacedAt(rules, k, new) ==
    {[row EXCEPT !.scan_pos = IF @ >= k THEN @ + 1 ELSE @] : row \in rules}
        \cup {[new EXCEPT !.scan_pos = k]}

\* The table without one row: the rows after it move up one rank.
Without(rules, gone) ==
    {[row EXCEPT !.scan_pos = IF @ > gone.scan_pos THEN @ - 1 ELSE @]
        : row \in rules \ {gone}}

InsertSharingRule(o, obj, name, type, role, incl, level, active) ==
    /\ current_user_is_system_admin
    /\ o \in organizations
    /\ type \in RuleTypes
    /\ level \in AccessLevels
    /\ role \in DOMAIN roles \cup {NULL}
    /\ SharingRuleNamed(o, obj, name) = {}
    /\ Cardinality(sharing_rules) < MaxRows
    /\ \E k \in 1..(Cardinality(sharing_rules) + 1) :
          sharing_rules' = PlacedAt(sharing_rules, k,
             [org_id |-> o, object_name |-> obj, rule_name |-> name, rule_type |-> type,
              shared_to_role_id |-> role, include_subordinates |-> incl,
              access_level |-> level, is_active |-> active, scan_pos |-> k])
    /\ ret' = NoCall
    /\ UNCHANGED <<recycle, identity, roles, permTables, org_wide_defaults, manual_shares, walk, txn>>

DeleteSharingRule(o, obj, name) ==
    /\ current_user_is_system_admin
    /\ SharingRuleNamed(o, obj, name) # {}
    /\ \E gone \in SharingRuleNamed(o, obj, name) :
          sharing_rules' = Without(sharing_rules, gone)
    /\ ret' = NoCall
    /\ UNCHANGED <<recycle, identity, roles, permTables, org_wide_defaults, manual_shares, walk, txn>>

ManualShareRow(obj, rec, to) ==
    {row \in manual_shares :
        row.object_name = obj /\ row.record_id = rec /\ row.shared_to_user_id = to}

InsertManualShare(o, obj, rec, by, to, level) ==
    /\ current_user_is_system_admin
    /\ o \in organizations
    /\ by \in DOMAIN users
    /\ to \in DOMAIN users
    /\ level \in AccessLevels
    /\ ManualShareRow(obj, rec, to) = {}
    /\ Cardinality(manual_shares) < MaxRows
    /\ manual_shares' = manual_shares \cup
          {[org_id |-> o, object_name |-> obj, record_id |-> rec,
            shared_by_user_id |-> by, shared_to_user_id |-> to, access_level |-> level]}
    /\ ret' = NoCall
    /\ UNCHANGED <<recycle, identity, roles, permTables, org_wide_defaults, sharing_rules, walk, txn>>

DeleteManualShare(obj, rec, to) ==
    /\ current_user_is_system_admin
    /\ ManualShareRow(obj, rec, to) # {}
    /\ manual_shares' = manual_shares \ ManualShareRow(obj, rec, to)
    /\ ret' = NoCall
    /\ UNCHANGED <<recycle, identity, roles, permTables, org_wide_defaults, sharing_rules, walk, txn>>

\* UPDATE of a rule's is_active, access_level and include_subordinates; the
\* new row version takes the old place or any other.
UpdateSharingRule(o, obj, name, incl, level, active) ==
    /\ current_user_is_system_admin
    /\ level \in AccessLevels
    /\ SharingRuleNamed(o, obj, name) # {}
    /\ \E old \in SharingRuleNamed(o, obj, name) : \E k \in 1..Cardinality(sharing_rules) :
          sharing_rules' = PlacedAt(Without(sharing_rules, old), k,
             [old EXCEPT !.include_subordinates = incl, !.access_level = level,
                         !.is_active = active])
    /\ ret' = NoCall
    /\ UNCHANGED <<recycle, identity, roles, permTables, org_wide_defaults, manual_shares, walk, txn>>

\* Calls of the tier functions; the GRANT EXECUTE lets any signed-in user
\* call them with any arguments.
CallGetOwdAccess(o, obj) ==
    /\ ret' = [fn |-> "get_owd_access", checking_org_id |-> o, object_name |-> obj,
               result |-> get_owd_access(o, obj)]
    /\ UNCHANGED <<recycle, identity, roles, permTables, shareTables, walk, txn>>

CallHasSharingRuleAccess(u, owner, obj) ==
    /\ ret' = [fn |-> "has_sharing_rule_access", checking_user_id |-> u,
               record_owner_id |-> owner, object_name |-> obj,
               result |-> has_sharing_rule_access(u, owner, obj)]
    /\ UNCHANGED <<recycle, identity, roles, permTables, shareTables, walk, txn>>

CallHasManualShare_consuming(u, rec, obj) ==
    /\ ret' = [fn |-> "has_manual_share", checking_user_id |-> u, record_id |-> rec,
               object_name |-> obj, result |-> has_manual_share(u, rec, obj)]
    /\ manual_shares' = manual_shares \ ManualShareRow(obj, rec, u)
    /\ UNCHANGED <<recycle, identity, roles, permTables, org_wide_defaults, sharing_rules, walk, txn>>

CallHasManualShare(u, rec, obj) ==
    /\ ret' = [fn |-> "has_manual_share", checking_user_id |-> u, record_id |-> rec,
               object_name |-> obj, result |-> has_manual_share(u, rec, obj)]
    /\ UNCHANGED <<recycle, identity, roles, permTables, shareTables, walk, txn>>

\* ------------------------------------------------------------ the resolver
\* No function of the schema composes the tiers; canSeeRecord and authorize
\* follow sections 4.3 and 4.4 of the specification, over the functions above.
\* A tier function that raises or diverges ends the resolution the same way.
\* The sharing-rule and manual-share functions return a boolean only, which
\* is taken as the grant.
canSeeRecord(principal, object_name, record_id, record_owner_id, needed) ==
    LET hierarchy == can_access_via_role(principal, record_owner_id)
        owd == get_owd_access(OrgOfUser(principal), object_name)
    IN IF hierarchy # "false" THEN {hierarchy}
       ELSE IF owd = "public_read_write" THEN {"true"}
       ELSE IF owd = "public_read_only" /\ needed = "read" THEN {"true"}
       ELSE { IF rule = "false"
              THEN has_manual_share(principal, record_id, object_name)
              ELSE rule
              : rule \in {has_sharing_rule_access(principal, record_owner_id, object_name)} }

NeededAccess(action) == IF action = "read" THEN "read" ELSE "read_write"

authorize(principal, object_name, action, record_id, record_owner_id) ==
    IF has_object_permission(principal, object_name, action) # "true"
    THEN {"Denied:NoObjectPermission"}
    ELSE IF action = "create" THEN {"Allowed"}
    ELSE { IF seen = "true" THEN "Allowed"
           ELSE IF seen = "false" THEN "Denied:NoRecordVisibility"
           ELSE seen
           : seen \in canSeeRecord(principal, object_name, record_id, record_owner_id,
                                   NeededAccess(action)) }

CallCanAccessViaRole(u, owner) ==
    /\ ret' = [fn |-> "can_access_via_role", checking_user_id |-> u,
               record_owner_id |-> owner, result |-> can_access_via_role(u, owner)]
    /\ UNCHANGED <<recycle, identity, roles, permTables, shareTables, walk, txn>>

CallCanSeeRecord(u, obj, rec, owner, needed) ==
    /\ \E res \in canSeeRecord(u, obj, rec, owner, needed) :
          ret' = [fn |-> "canSeeRecord", checking_user_id |-> u, object_name |-> obj,
                  record_id |-> rec, record_owner_id |-> owner, needed |-> needed,
                  result |-> res]
    /\ UNCHANGED <<recycle, identity, roles, permTables, shareTables, walk, txn>>

CallAuthorize(u, obj, action, rec, owner) ==
    /\ \E res \in authorize(u, obj, action, rec, owner) :
          ret' = [fn |-> "authorize", checking_user_id |-> u, object_name |-> obj,
                  action |-> action, record_id |-> rec, record_owner_id |-> owner,
                  result |-> res]
    /\ UNCHANGED <<recycle, identity, roles, permTables, shareTables, walk, txn>>

\* ------------------------------------------------------------ initial state
\* The seed of the migration: one 'System Administrator' profile, whose user
\* (user 1) administers; a standard profile in the same organization and one
\* in a second organization, each with a user.  No role, no permission row,
\* no sharing row yet.
SeedProfiles ==
    [p \in ProfileIds |->
        [org_id |-> IF p = 3 THEN 2 ELSE 1,
         profile_name |-> IF p = 1 THEN "System Administrator" ELSE "Standard User"]]

SeedUsers ==
    [u \in UserIds |->
        [org_id |-> IF u = 3 THEN 2 ELSE 1, profile_id |-> u, role_id |-> NULL]]

\* handle_user_org_metadata, the AFTER INSERT trigger of system.users:
\*   UPDATE auth.users SET raw_app_meta_data = raw_app_meta_data ||
\*     {org_id: NEW.org_id, profile_id: NEW.profile_id} WHERE id = NEW.user_id
handle_user_org_metadata(meta, user_id, new) ==
    [meta EXCEPT ![user_id] = [org_id |-> new.org_id, profile_id |-> new.profile_id]]

NoMetadata == [u \in UserIds |-> [org_id |-> NULL, profile_id |-> NULL]]

\* The seed rows went through the trigger.
SeedMetadata ==
    [u \in UserIds |-> [org_id |-> SeedUsers[u].org_id,
                        profile_id |-> SeedUsers[u].profile_id]]

\* Both organizations exist, every seed user carries its claims, and the
\* recycle bin is empty.
InitStore ==
    /\ organizations = OrgIds
    /\ app_metadata = SeedMetadata
    /\ deletion_batches = {}
    /\ deleted_records = {}

NoSession == [uid |-> NULL, org_id |-> NULL, profile_id |-> NULL]
AdminSession == [uid |-> 1, org_id |-> 1, profile_id |-> 1]

Init ==
    /\ variable_conflict \in VariableConflictModes
    /\ session = NoSession
    /\ profiles = SeedProfiles
    /\ users = SeedUsers
    /\ roles = <<>>
    /\ profile_object_permissions = {}
    /\ profile_field_permissions = {}
    /\ org_wide_defaults = {}
    /\ sharing_rules = {}
    /\ manual_shares = {}
    /\ ret = NoCall
    /\ walk = NoWalk
    /\ txn = NoTxn
    /\ InitStore

\* ------------------------------------------------ role hierarchy: the runs
NextRole ==
    \/ \E u \in UserIds : Login(u)
    \/ Logout
    \/ \E r \in RoleIds, o \in OrgIds, p \in RoleIds \cup {NULL} : InsertRole(r, o, p)
    \/ \E r \in RoleIds, p \in RoleIds \cup {NULL} : UpdateRoleParent(r, p)
    \/ \E p \in RoleIds \cup {NULL}, c \in RoleIds \cup {NULL} : CallIsRoleAbove(p, c)
    \/ \E c \in RoleIds \cup {NULL}, p \in RoleIds \cup {NULL} : CallIsSubordinateOf(c, p)

RoleSpec == Init /\ [][NextRole]_vars

\* The administrator signed in, any table the writes above can produce.
RoleTables ==
    UNION { [S -> [org_id : {1}, parent_role_id : S \cup {NULL}]] : S \in SUBSET RoleIds }

InitWalk ==
    /\ variable_conflict \in VariableConflictModes
    /\ session = AdminSession
    /\ profiles = SeedProfiles
    /\ users = SeedUsers
    /\ roles = <<>>
    /\ profile_object_permissions = {}
    /\ profile_field_permissions = {}
    /\ org_wide_defaults = {}
    /\ sharing_rules = {}
    /\ manual_shares = {}
    /\ ret = NoCall
    /\ walk = NoWalk
    /\ txn = NoTxn
    /\ InitStore

NextWalk ==
    \/ \E r \in RoleIds, p \in RoleIds \cup {NULL} : InsertRole(r, 1, p)
    \/ \E r \in RoleIds, p \in RoleIds \cup {NULL} : UpdateRoleParent(r, p)
    \/ \E fn \in {"is_role_above", "is_subordinate_of"}, p \in RoleIds, c \in RoleIds :
          WalkStart(fn, p, c)
    \/ WalkStep
    \/ WalkReturn

\* The executor keeps producing iterations while the query runs, and a
\* finished query returns.
WalkSpec == InitWalk /\ [][NextWalk]_vars /\ WF_vars(WalkStep) /\ WF_vars(WalkReturn)

\* Two sessions of the administrator, starting from an acyclic table.
InitTxn ==
    /\ variable_conflict \in VariableConflictModes
    /\ session = AdminSession
    /\ profiles = SeedProfiles
    /\ users = SeedUsers
    /\ roles \in {tbl \in RoleTables :
                    /\ \A r \in DOMAIN tbl : tbl[r].parent_role_id # r
                    /\ Acyclic(tbl)}
    /\ profile_object_permissions = {}
    /\ profile_field_permissions = {}
    /\ org_wide_defaults = {}
    /\ sharing_rules = {}
    /\ manual_shares = {}
    /\ ret = NoCall
    /\ walk = NoWalk
    /\ txn = NoTxn
    /\ InitStore

NextTxn ==
    \/ \E t \in {1, 2}, r \in RoleIds, p \in RoleIds \cup {NULL} : IssueRoleUpdate(t, r, p)
    \/ \E t \in {1, 2} : ExecuteRoleUpdate(t)

TxnSpec == InitTxn /\ [][NextTxn]_vars

\* ------------------------------------------------- role hierarchy: claims
\* A is the parent of B and B the parent of C, in an acyclic table.
Chain3(A, B, C) ==
    /\ {A, B, C} \subseteq DOMAIN roles
    /\ roles[B].parent_role_id = A
    /\ roles[C].parent_role_id = B
    /\ Acyclic(roles)

\* C5: for roles A, B, C with A the parent of B and B the parent of C in an
\* acyclic role table, is_role_above(A, C) is true and is_role_above(C, A) is
\* false.
C5_AncestorOfGrandchild ==
    \A A \in RoleIds, B \in RoleIds, C \in RoleIds :
        (ret.fn = "is_role_above" /\ Chain3(A, B, C)) =>
            /\ (ret.parent_role_id = A /\ ret.child_role_id = C) => ret.result = "true"
            /\ (ret.parent_role_id = C /\ ret.child_role_id = A) => ret.result = "false"

\* C6: is_role_above is irreflexive: is_role_above(X, X) is false for every
\* role X, stored or not.
C6_AncestorIrreflexive ==
    (ret.fn = "is_role_above" /\ ret.parent_role_id = ret.child_role_id) =>
        ret.result = "false"

\* C7: a write that would set a role's parent to one of its descendants is
\* rejected, so the parent graph is acyclic in every state reached by role
\* inserts and parent reassignments.
C7_RoleGraphAcyclic == Acyclic(roles)

\* C8: two concurrent parent reassignments, each of which alone keeps the
\* graph acyclic, leave the committed role table without a cycle.
C8_ConcurrentReassignAcyclic ==
    (\A t \in {1, 2} : txn[t].phase # "idle" => txn[t].alone_acyclic) => Acyclic(roles)

InitPerm ==
    /\ variable_conflict = "error"
    /\ session = NoSession
    /\ profiles = SeedProfiles
    /\ users = SeedUsers
    /\ roles = <<>>
    /\ profile_object_permissions = {}
    /\ profile_field_permissions = {}
    /\ org_wide_defaults = {}
    /\ sharing_rules = {}
    /\ manual_shares = {}
    /\ ret = NoCall
    /\ walk = NoWalk
    /\ txn = NoTxn
    /\ InitStore

NextObjPerm ==
    \/ \E u \in UserIds : Login(u)
    \/ Logout
    \/ \E p \in {1, 2}, o \in ObjectNames, cc \in BOOLEAN, cr \in BOOLEAN,
          cu \in BOOLEAN, cd \in BOOLEAN : InsertObjectPermission(p, o, cc, cr, cu, cd)
    \/ \E p \in {1, 2}, o \in ObjectNames, cc \in BOOLEAN, cr \in BOOLEAN,
          cu \in BOOLEAN, cd \in BOOLEAN : UpdateObjectPermission(p, o, cc, cr, cu, cd)
    \/ \E p \in {1, 2}, o \in ObjectNames : DeleteObjectPermission(p, o)
    \/ \E u \in UserIds, o \in ObjectNames, t \in PermissionTypes :
          CallHasObjectPermission(u, o, t)

ObjPermSpec == InitPerm /\ [][NextObjPerm]_vars

NextFieldPerm ==
    \/ \E u \in UserIds : Login(u)
    \/ Logout
    \/ \E p \in {1, 2}, o \in ObjectNames, f \in FieldNames, cr \in BOOLEAN, ce \in BOOLEAN :
          InsertFieldPermission(p, o, f, cr, ce)
    \/ \E p \in {1, 2}, o \in ObjectNames, f \in FieldNames, cr \in BOOLEAN, ce \in BOOLEAN :
          UpdateFieldPermission(p, o, f, cr, ce)
    \/ \E p \in {1, 2}, o \in ObjectNames, f \in FieldNames : DeleteFieldPermission(p, o, f)
    \/ \E u \in UserIds, o \in ObjectNames, f \in FieldNames, t \in FieldPermissionTypes :
          CallHasFieldPermission(u, o, f, t)

FieldPermSpec == InitPerm /\ [][NextFieldPerm]_vars

\* --------------------------------------------------- permissions: claims
\* C2: for every (profile, object) pair with no profile_object_permissions
\* row, has_object_permission returns false for create, read, update and
\* delete, in every state of the permission table.
C2_NoRowDeniesObject ==
    (/\ ret.fn = "has_object_permission"
     /\ ObjectPermissionRow(ProfileOfUser(ret.checking_user_id), ret.object_name) = {})
        => ret.result = "false"

\* The signed-in user asks about an object its profile has no row for, while
\* another (profile, object) pair has a row granting that very action.
C2_Witness ==
    /\ ret.fn = "has_object_permission"
    /\ ret.checking_user_id = auth_uid
    /\ ret.permission_type \in {"create", "read", "update", "delete"}
    /\ ObjectPermissionRow(ProfileOfUser(ret.checking_user_id), ret.object_name) = {}
    /\ \E row \in profile_object_permissions :
          row.can_create /\ row.can_read /\ row.can_update /\ row.can_delete
    /\ ret.result = "false"

\* C3: for every (profile, object, field) triple with no
\* profile_field_permissions row, has_field_permission returns false for read
\* and for edit.
C3_NoRowDeniesField ==
    (/\ ret.fn = "has_field_permission"
     /\ FieldPermissionRow(ProfileOfUser(ret.checking_user_id), ret.object_name,
                           ret.field_name) = {})
        => ret.result = "false"

\* The signed-in user asks about a field its profile has no row for, while
\* the same profile and object have a row granting another field.
C3_Witness ==
    /\ ret.fn = "has_field_permission"
    /\ ret.checking_user_id = auth_uid
    /\ ret.permission_type \in {"read", "edit"}
    /\ FieldPermissionRow(ProfileOfUser(ret.checking_user_id), ret.object_name,
                          ret.field_name) = {}
    /\ \E row \in profile_field_permissions :
          /\ row.profile_id = ProfileOfUser(ret.checking_user_id)
          /\ row.object_name = ret.object_name
          /\ row.can_read /\ row.can_edit
    /\ ret.result = "false"

\* --------------------------------------------------- the resolver: runs
\* The role tree Admin (1, root) -> Manager (2) -> Rep (3) -> ...: role r has
\* parent r - 1, and role 1 has none.
RoleChain == [r \in RoleIds |-> [org_id |-> 1, parent_role_id |-> r - 1]]

\* User 2 holds the root role and user 1 the role two levels below it.
GateUsers == [SeedUsers EXCEPT ![1].role_id = 3, ![2].role_id = 1]

InitGate ==
    /\ variable_conflict \in VariableConflictModes
    /\ session = AdminSession
    /\ profiles = SeedProfiles
    /\ users = GateUsers
    /\ roles = RoleChain
    /\ profile_object_permissions = {}
    /\ profile_field_permissions = {}
    /\ org_wide_defaults = {}
    /\ sharing_rules = {}
    /\ manual_shares = {}
    /\ ret = NoCall
    /\ walk = NoWalk
    /\ txn = NoTxn
    /\ InitStore

NextGate ==
    \/ \E u \in {1, 2} : Login(u)
    \/ \E cc \in BOOLEAN, cr \in BOOLEAN, cu \in BOOLEAN, cd \in BOOLEAN :
          InsertObjectPermission(2, "accounts", cc, cr, cu, cd)
    \/ \E cc \in BOOLEAN, cr \in BOOLEAN, cu \in BOOLEAN, cd \in BOOLEAN :
          UpdateObjectPermission(2, "accounts", cc, cr, cu, cd)
    \/ DeleteObjectPermission(2, "accounts")
    \/ \E v \in DefaultAccessValues : SetOrgWideDefault(1, "accounts", v)
    \/ DeleteOrgWideDefault(1, "accounts")
    \/ \E incl \in BOOLEAN, level \in AccessLevels :
          InsertSharingRule(1, "accounts", "r1", "ownership_based", 1, incl, level, TRUE)
    \/ DeleteSharingRule(1, "accounts", "r1")
    \/ \E level \in AccessLevels : InsertManualShare(1, "accounts", 1, 1, 2, level)
    \/ DeleteManualShare("accounts", 1, 2)
    \/ \E obj \in ObjectNames, action \in {"read", "update", "delete"},
          rec \in RecordIds, owner \in {1, 2} : CallAuthorize(2, obj, action, rec, owner)

GateSpec == InitGate /\ [][NextGate]_vars

InitAccess ==
    /\ variable_conflict \in VariableConflictModes
    /\ session = AdminSession
    /\ profiles = SeedProfiles
    /\ users = SeedUsers
    /\ roles = RoleChain
    /\ profile_object_permissions = {}
    /\ profile_field_permissions = {}
    /\ org_wide_defaults = {}
    /\ sharing_rules = {}
    /\ manual_shares = {}
    /\ ret = NoCall
    /\ walk = NoWalk
    /\ txn = NoTxn
    /\ InitStore

NextAccess ==
    \/ \E u \in {1, 2}, r \in RoleIds \cup {NULL} : UpdateUserRole(u, r)
    \/ \E v \in DefaultAccessValues : SetOrgWideDefault(1, "accounts", v)
    \/ DeleteOrgWideDefault(1, "accounts")
    \/ \E role \in RoleIds, incl \in BOOLEAN :
          InsertSharingRule(1, "accounts", "r1", "ownership_based", role, incl, "read", TRUE)
    \/ DeleteSharingRule(1, "accounts", "r1")
    \/ \E to \in {1, 2} : InsertManualShare(1, "accounts", 1, 1, to, "read_write")
    \/ \E to \in {1, 2} : DeleteManualShare("accounts", 1, to)
    \/ \E u \in {1, 2}, owner \in {1, 2} : CallCanAccessViaRole(u, owner)
    \/ \E u \in {1, 2}, rec \in RecordIds, owner \in {1, 2}, needed \in AccessLevels :
          CallCanSeeRecord(u, "accounts", rec, owner, needed)

AccessSpec == InitAccess /\ [][NextAccess]_vars

\* ------------------------------------------------- the resolver: claims
\* The profile has a row for the object whose flag for the action is true.
ProfileGrants(p, obj, action) ==
    \E row \in profile_object_permissions :
        /\ row.profile_id = p
        /\ row.object_name = obj
        /\ \/ (action = "create" /\ row.can_create)
           \/ (action = "read" /\ row.can_read)
           \/ (action = "update" /\ row.can_update)
           \/ (action = "delete" /\ row.can_delete)

C4_OwnerAlwaysSees ==
    (/\ ret.fn \in {"canSeeRecord", "can_access_via_role"}
     /\ ret.checking_user_id = ret.record_owner_id)
        => ret.result = "true"

\* The owner has no role and nothing else grants: the default is private, the
\* only manual share names another user.
C4_Witness ==
    /\ ret.fn = "canSeeRecord"
    /\ ret.checking_user_id = ret.record_owner_id
    /\ ret.needed = "read_write"
    /\ RoleOfUser(ret.checking_user_id) = NULL
    /\ get_owd_access(OrgOfUser(ret.checking_user_id), ret.object_name) = "private"
    /\ has_manual_share(ret.checking_user_id, ret.record_id, ret.object_name) = "false"
    /\ manual_shares # {}
    /\ ret.result = "true"

\* C10: with the roles Admin (root) -> Manager -> Rep, a principal whose role
\* is Admin is granted, for read and for read_write, a record owned by another
\* user whose role is Rep, with the organization-wide default private and no
\* sharing rule or manual share.
C10_HierarchyEscalation ==
    (/\ ret.fn \in {"canSeeRecord", "can_access_via_role"}
     /\ ret.checking_user_id # ret.record_owner_id
     /\ Chain3(1, 2, 3)
     /\ RoleOfUser(ret.checking_user_id) = 1
     /\ RoleOfUser(ret.record_owner_id) = 3
     /\ get_owd_access(OrgOfUser(ret.checking_user_id), "accounts") = "private"
     /\ sharing_rules = {}
     /\ manual_shares = {})
        => ret.result = "true"

\* ------------------------------------------ organization-wide defaults
\* No user has a role, so the hierarchy tier grants nothing; the defaults of
\* both organizations and both objects are set, changed and deleted.
InitOwd ==
    /\ variable_conflict \in VariableConflictModes
    /\ session = AdminSession
    /\ profiles = SeedProfiles
    /\ users = SeedUsers
    /\ roles = RoleChain
    /\ profile_object_permissions = {}
    /\ profile_field_permissions = {}
    /\ org_wide_defaults = {}
    /\ sharing_rules = {}
    /\ manual_shares = {}
    /\ ret = NoCall
    /\ walk = NoWalk
    /\ txn = NoTxn
    /\ InitStore

NextOwd ==
    \/ \E o \in OrgIds, obj \in ObjectNames, v \in DefaultAccessValues :
          SetOrgWideDefault(o, obj, v)
    \/ \E o \in OrgIds, obj \in ObjectNames : DeleteOrgWideDefault(o, obj)
    \/ \E level \in AccessLevels : InsertManualShare(1, "accounts", 1, 1, 2, level)
    \/ DeleteManualShare("accounts", 1, 2)
    \/ \E o \in OrgIds, obj \in ObjectNames : CallGetOwdAccess(o, obj)
    \/ \E u \in UserIds, obj \in ObjectNames, rec \in RecordIds, owner \in {1, 2},
          needed \in AccessLevels : CallCanSeeRecord(u, obj, rec, owner, needed)

OwdSpec == InitOwd /\ [][NextOwd]_vars

\* The principal of the recorded canSeeRecord call is not the owner, and the
\* hierarchy, sharing-rule and manual-share tiers grant it nothing.
OnlyDefaultCanGrant ==
    /\ ret.fn = "canSeeRecord"
    /\ ret.checking_user_id # ret.record_owner_id
    /\ can_access_via_role(ret.checking_user_id, ret.record_owner_id) = "false"
    /\ has_sharing_rule_access(ret.checking_user_id, ret.record_owner_id,
                               ret.object_name) = "false"
    /\ has_manual_share(ret.checking_user_id, ret.record_id, ret.object_name) = "false"

InitRule ==
    /\ variable_conflict \in VariableConflictModes
    /\ session = AdminSession
    /\ profiles = SeedProfiles
    /\ users = SeedUsers
    /\ roles = RoleChain
    /\ profile_object_permissions = {}
    /\ profile_field_permissions = {}
    /\ org_wide_defaults = {}
    /\ sharing_rules = {}
    /\ manual_shares = {}
    /\ ret = NoCall
    /\ walk = NoWalk
    /\ txn = NoTxn
    /\ InitStore

NextRule ==
    \/ \E r \in RoleIds \cup {NULL} : UpdateUserRole(2, r)
    \/ \E name \in {"r1", "r2"}, role \in RoleIds, incl \in BOOLEAN,
          level \in AccessLevels, active \in BOOLEAN :
          InsertSharingRule(1, "accounts", name, "ownership_based", role, incl, level, active)
    \/ \E name \in {"r1", "r2"}, incl \in BOOLEAN, level \in AccessLevels,
          active \in BOOLEAN : UpdateSharingRule(1, "accounts", name, incl, level, active)
    \/ \E name \in {"r1", "r2"} : DeleteSharingRule(1, "accounts", name)
    \/ \E obj \in ObjectNames : CallHasSharingRuleAccess(2, 1, obj)
    \/ \E needed \in AccessLevels : CallCanSeeRecord(2, "accounts", 1, 1, needed)

RuleSpec == InitRule /\ [][NextRule]_vars

\* The rules of the principal's organization on the object.
RulesOf(u, obj) ==
    {sr \in sharing_rules : sr.org_id = OrgOfUser(u) /\ sr.object_name = obj}

\* Section 4.3 of the specification: the rule names the role, or includes
\* subordinates and the role is a strict descendant of the role it names.
RuleMatches(sr, role) ==
    /\ role # NULL
    /\ sr.shared_to_role_id # NULL
    /\ \/ sr.shared_to_role_id = role
       \/ (sr.include_subordinates
           /\ ChainHits(roles, role, sr.shared_to_role_id, MaxRoles))

\* C12: a sharing rule of (org, object) matches a principal exactly when it
\* names the principal's role, or includes subordinates and the principal's
\* role is a descendant of the role it names; has_sharing_rule_access is true
\* exactly when an active rule matches.
C12_SharingRuleMatch ==
    ret.fn = "has_sharing_rule_access" =>
        ret.result =
            IF \E sr \in RulesOf(ret.checking_user_id, ret.object_name) :
                  sr.is_active /\ RuleMatches(sr, RoleOfUser(ret.checking_user_id))
            THEN "true" ELSE "false"

\* The rules the function itself takes as matching the principal.
RulesMatched(u, obj) ==
    {sr \in sharing_rules :
        SharingRuleRow(sr, RoleOfUser(u), OrgOfUser(u), obj) = "true"}

\* C13: the sharing-rule tier grants the union of the access levels of the
\* matching active rules: with no other tier granting, read_write is granted
\* if and only if a matching rule has access_level read_write, and rules of
\* level read grant read only.
C13_RuleLevelUnion ==
    (/\ ret.fn = "canSeeRecord"
     /\ ret.checking_user_id # ret.record_owner_id
     /\ can_access_via_role(ret.checking_user_id, ret.record_owner_id) = "false"
     /\ OrgWideDefaultRow(OrgOfUser(ret.checking_user_id), ret.object_name) = {}
     /\ has_manual_share(ret.checking_user_id, ret.record_id, ret.object_name) = "false"
     /\ has_sharing_rule_access(ret.checking_user_id, ret.record_owner_id,
                                ret.object_name) \in {"true", "false"})
        => (ret.result = "true" <=>
               \E sr \in RulesMatched(ret.checking_user_id, ret.object_name) :
                  sr.access_level = "read_write" \/ ret.needed = "read")

\* C14: a rule with is_active false contributes to no grant: when every rule
\* that matches the principal's role is inactive the tier does not grant, and
\* when every rule of (org, object) is inactive the function returns false.
C14_InactiveRuleGrantsNothing ==
    ret.fn = "has_sharing_rule_access" =>
        LET rules == RulesOf(ret.checking_user_id, ret.object_name)
        IN /\ (\A sr \in rules :
                  RuleMatches(sr, RoleOfUser(ret.checking_user_id)) => ~sr.is_active)
                 => ret.result # "true"
           /\ (\A sr \in rules : ~sr.is_active) => ret.result = "false"

\* The only rule of (org, object) names the principal's role and is inactive.
C14_Witness ==
    /\ ret.fn = "has_sharing_rule_access"
    /\ RoleOfUser(ret.checking_user_id) # NULL
    /\ \E sr \in RulesOf(ret.checking_user_id, ret.object_name) :
          /\ sr.shared_to_role_id = RoleOfUser(ret.checking_user_id)
          /\ ~sr.is_active
    /\ ret.result = "false"

\* ------------------------------------------------------- manual shares
\* User 1 owns the records; no user has a role.  Shares of both objects and
\* all records are given to users 2 and 3 and taken back; the default of
\* (organization 1, accounts) is private or has no row.
NextShare ==
    \/ SetOrgWideDefault(1, "accounts", "private")
    \/ DeleteOrgWideDefault(1, "accounts")
    \/ \E obj \in ObjectNames, rec \in RecordIds, to \in {2, 3}, level \in AccessLevels :
          InsertManualShare(1, obj, rec, 1, to, level)
    \/ \E obj \in ObjectNames, rec \in RecordIds, to \in {2, 3} :
          DeleteManualShare(obj, rec, to)
    \/ \E u \in {2, 3}, rec \in RecordIds, obj \in ObjectNames :
          CallHasManualShare(u, rec, obj)
    \/ \E u \in {2, 3}, obj \in ObjectNames, rec \in RecordIds, needed \in AccessLevels :
          CallCanSeeRecord(u, obj, rec, 1, needed)

ShareSpec == InitOwd /\ [][NextShare]_vars

\* C15: a manual share of (object, record, grantee) grants the grantee that
\* record only: has_manual_share is true exactly when a row for that exact
\* object, record and user exists.
C15_ManualShareExactRecord ==
    ret.fn = "has_manual_share" =>
        (ret.result = "true"
            <=> ManualShareRow(ret.object_name, ret.record_id, ret.checking_user_id) # {})

\* The user holds a share of another record of the same object and asks for
\* a record it has no share of.
C15_Witness ==
    /\ ret.fn = "has_manual_share"
    /\ \E row \in manual_shares :
          /\ row.shared_to_user_id = ret.checking_user_id
          /\ row.object_name = ret.object_name
          /\ row.record_id # ret.record_id
    /\ ret.result = "false"

\* C16: the manual-share tier grants the stored access_level: with no
\* ownership, no hierarchy relation, no sharing rule and the default private,
\* a share of level read_write allows read and read_write, and a share of
\* level read allows read and denies read_write.
C16_ManualShareLevel ==
    (/\ ret.fn = "canSeeRecord"
     /\ ret.checking_user_id # ret.record_owner_id
     /\ can_access_via_role(ret.checking_user_id, ret.record_owner_id) = "false"
     /\ get_owd_access(OrgOfUser(ret.checking_user_id), ret.object_name)
           \in {"private", "null"}
     /\ has_sharing_rule_access(ret.checking_user_id, ret.record_owner_id,
                                ret.object_name) = "false"
     /\ ManualShareRow(ret.object_name, ret.record_id, ret.checking_user_id) # {})
        => (ret.result = "true" <=>
               \E row \in ManualShareRow(ret.object_name, ret.record_id,
                                         ret.checking_user_id) :
                  row.access_level = "read_write" \/ ret.needed = "read")

\* ------------------------------------------------ record deny-by-default
\* The principal's role is a strict ancestor of the owner's role in the
\* stored role table.
RoleIsAncestor(u, owner) ==
    /\ RoleOfUser(u) # NULL
    /\ RoleOfUser(owner) # NULL
    /\ ChainHits(roles, RoleOfUser(owner), RoleOfUser(u), MaxRoles)

\* C17: when the principal is not the owner, its role is not an ancestor of
\* the owner's role (or either has no role), the organization-wide default
\* is private or has no row, no active sharing rule matches and no manual
\* share exists, canSeeRecord is denied for read and for read_write.
C17_RecordDenyByDefault ==
    (/\ ret.fn = "canSeeRecord"
     /\ ret.checking_user_id # ret.record_owner_id
     /\ ~RoleIsAncestor(ret.checking_user_id, ret.record_owner_id)
     /\ \A row \in OrgWideDefaultRow(OrgOfUser(ret.checking_user_id), ret.object_name) :
           row.default_access = "private"
     /\ \A sr \in RulesOf(ret.checking_user_id, ret.object_name) :
           ~(sr.is_active /\ RuleMatches(sr, RoleOfUser(ret.checking_user_id)))
     /\ ManualShareRow(ret.object_name, ret.record_id, ret.checking_user_id) = {})
        => ret.result = "false"

\* ------------------------------------------------------------- create
\* Users 1 (administrator) and 2 sign in and out; the permission row of
\* profile 2 on either object is written while the default and a manual
\* share of accounts come and go.  A create request names no record and no
\* owner.
NextCreate ==
    \/ \E u \in {1, 2} : Login(u)
    \/ Logout
    \/ \E obj \in ObjectNames, cc \in BOOLEAN, cr \in BOOLEAN, cu \in BOOLEAN,
          cd \in BOOLEAN : InsertObjectPermission(2, obj, cc, cr, cu, cd)
    \/ \E obj \in ObjectNames, cc \in BOOLEAN, cr \in BOOLEAN, cu \in BOOLEAN,
          cd \in BOOLEAN : UpdateObjectPermission(2, obj, cc, cr, cu, cd)
    \/ \E obj \in ObjectNames : DeleteObjectPermission(2, obj)
    \/ \E v \in {"private", "public_read_write"} : SetOrgWideDefault(1, "accounts", v)
    \/ DeleteOrgWideDefault(1, "accounts")
    \/ InsertManualShare(1, "accounts", 1, 1, 2, "read_write")
    \/ DeleteManualShare("accounts", 1, 2)
    \/ \E u \in {1, 2}, obj \in ObjectNames : CallAuthorize(u, obj, "create", NULL, NULL)

CreateSpec == InitGate /\ [][NextCreate]_vars

NextVisible ==
    \/ \E u \in UserIds : Login(u)
    \/ Logout
    \/ \E p \in {1, 2}, o \in ObjectNames, f \in FieldNames, cr \in BOOLEAN, ce \in BOOLEAN :
          InsertFieldPermission(p, o, f, cr, ce)
    \/ \E p \in {1, 2}, o \in ObjectNames, f \in FieldNames, cr \in BOOLEAN, ce \in BOOLEAN :
          UpdateFieldPermission(p, o, f, cr, ce)
    \/ \E p \in {1, 2}, o \in ObjectNames, f \in FieldNames : DeleteFieldPermission(p, o, f)
    \/ \E u \in UserIds, o \in ObjectNames : CallGetVisibleFields(u, o)

VisibleSpec == InitPerm /\ [][NextVisible]_vars

\* The fields of the object for which the profile has a row with can_read.
ReadableFields(p, obj) ==
    {f \in FieldNames :
        \E row \in FieldPermissionRow(p, obj, f) : row.can_read}

\* C20: get_visible_fields returns the field names that have a
\* profile_field_permissions row of (the principal's profile, object, field)
\* with can_read true: it never holds another field, and for the requesting
\* principal it holds all of them.
C20_VisibleFieldsExact ==
    ret.fn = "get_visible_fields" =>
        LET readable == ReadableFields(ProfileOfUser(ret.checking_user_id), ret.object_name)
        IN /\ ret.result \subseteq readable
           /\ ~NotCurrentUser(ret.checking_user_id) => ret.result = readable

\* The principal's profile has a row of the object with can_edit and without
\* can_read, and the field is not returned.
C20_Witness ==
    /\ ret.fn = "get_visible_fields"
    /\ ret.checking_user_id = auth_uid
    /\ \E row \in profile_field_permissions :
          /\ row.profile_id = ProfileOfUser(ret.checking_user_id)
          /\ row.object_name = ret.object_name
          /\ row.can_edit /\ ~row.can_read
    /\ ret.result = {}

\* ----------------------------------------------- resolution functions
\* Every resolution function is called, in any order and any number of
\* times, between writes of each table it reads.  User 1, the administrator,
\* stays signed in and the permission rows are those of its profile.
NextPure ==
    \/ \E cr \in BOOLEAN : InsertObjectPermission(1, "accounts", TRUE, cr, FALSE, FALSE)
    \/ DeleteObjectPermission(1, "accounts")
    \/ \E cr \in BOOLEAN : InsertFieldPermission(1, "accounts", "name", cr, TRUE)
    \/ DeleteFieldPermission(1, "accounts", "name")
    \/ \E v \in {"private", "public_read_only"} : SetOrgWideDefault(1, "accounts", v)
    \/ \E role \in {1, 3}, incl \in BOOLEAN :
          InsertSharingRule(1, "accounts", "r1", "ownership_based", role, incl, "read", TRUE)
    \/ DeleteSharingRule(1, "accounts", "r1")
    \/ InsertManualShare(1, "accounts", 1, 1, 2, "read")
    \/ DeleteManualShare("accounts", 1, 2)
    \/ \E u \in {1, 2}, t \in {"create", "read"} : CallHasObjectPermission(u, "accounts", t)
    \/ \E u \in {1, 2}, t \in {"read", "edit"} :
          CallHasFieldPermission(u, "accounts", "name", t)
    \/ \E u \in {1, 2} : CallGetVisibleFields(u, "accounts")
    \/ \E u \in {1, 2}, owner \in {1, 2} : CallCanAccessViaRole(u, owner)
    \/ \E p \in {1, 3}, c \in {1, 3} : CallIsRoleAbove(p, c)
    \/ \E c \in {1, 3}, p \in {1, 3} : CallIsSubordinateOf(c, p)
    \/ \E o \in OrgIds : CallGetOwdAccess(o, "accounts")
    \/ \E u \in {1, 2} : CallHasSharingRuleAccess(u, 1, "accounts")
    \/ \E u \in {1, 2}, rec \in RecordIds : CallHasManualShare(u, rec, "accounts")

PureSpec == InitGate /\ [][NextPure]_vars

\* The function a recorded call names, applied to the recorded arguments in
\* the present state.
Evaluate(call) ==
    CASE call.fn = "has_object_permission" ->
            has_object_permission(call.checking_user_id, call.object_name,
                                  call.permission_type)
      [] call.fn = "has_field_permission" ->
            has_field_permission(call.checking_user_id, call.object_name,
                                 call.field_name, call.permission_type)
      [] call.fn = "get_visible_fields" ->
            get_visible_fields(call.checking_user_id, call.object_name)
      [] call.fn = "can_access_via_role" ->
            can_access_via_role(call.checking_user_id, call.record_owner_id)
      [] call.fn = "is_role_above" ->
            is_role_above(call.parent_role_id, call.child_role_id)
      [] call.fn = "is_subordinate_of" ->
            is_subordinate_of(call.child_role_id, call.parent_role_id)
      [] call.fn = "get_owd_access" ->
            get_owd_access(call.checking_org_id, call.object_name)
      [] call.fn = "has_sharing_rule_access" ->
            has_sharing_rule_access(call.checking_user_id, call.record_owner_id,
                                    call.object_name)
      [] call.fn = "has_manual_share" ->
            has_manual_share(call.checking_user_id, call.record_id, call.object_name)

NextIndep ==
    \/ \E u \in {1, 2} : Login(u)
    \/ \E cr \in BOOLEAN, cw \in BOOLEAN :
          InsertObjectPermission(2, "accounts", cw, cr, cw, cw)
    \/ \E cr \in BOOLEAN, cw \in BOOLEAN :
          UpdateObjectPermission(2, "accounts", cw, cr, cw, cw)
    \/ DeleteObjectPermission(2, "accounts")
    \/ \E f \in FieldNames, cr \in BOOLEAN, ce \in BOOLEAN :
          InsertFieldPermission(2, "accounts", f, cr, ce)
    \/ \E f \in FieldNames, cr \in BOOLEAN, ce \in BOOLEAN :
          UpdateFieldPermission(2, "accounts", f, cr, ce)
    \/ \E f \in FieldNames : DeleteFieldPermission(2, "accounts", f)
    \/ InsertManualShare(1, "accounts", 1, 1, 2, "read")
    \/ DeleteManualShare("accounts", 1, 2)
    \/ \E t \in {"read", "delete"} : CallHasObjectPermission(2, "accounts", t)
    \/ CallGetVisibleFields(2, "accounts")
    \/ \E f \in FieldNames : CallHasFieldPermission(2, "accounts", f, "read")

IndepSpec == InitPerm /\ [][NextIndep]_vars

\* The profile of user u holds a row of full CRUD for the object.
FullObjectAccess(u, obj) ==
    \E row \in ObjectPermissionRow(ProfileOfUser(u), obj) :
        row.can_create /\ row.can_read /\ row.can_update /\ row.can_delete

\* C21: object-level and field-level permissions are independent.  A step
\* that leaves profile_field_permissions (and the session and the users)
\* alone - a write of profile_object_permissions, a grant of record-level
\* access - changes no result of has_field_permission or get_visible_fields;
\* a step that leaves profile_object_permissions alone changes no result of
\* has_object_permission; and a user whose profile has full CRUD on an object
\* and no field row for it sees no field of it.
C21_PermissionLevelsIndependent ==
    [][/\ UNCHANGED <<session, users, profile_field_permissions>> =>
            \A u \in UserIds, o \in ObjectNames :
               /\ get_visible_fields(u, o)' = get_visible_fields(u, o)
               /\ \A f \in FieldNames, t \in FieldPermissionTypes :
                     has_field_permission(u, o, f, t)' = has_field_permission(u, o, f, t)
       /\ UNCHANGED <<session, users, profile_object_permissions>> =>
            \A u \in UserIds, o \in ObjectNames, t \in PermissionTypes :
               has_object_permission(u, o, t)' = has_object_permission(u, o, t)
       /\ \A u \in UserIds, o \in ObjectNames :
             (/\ FullObjectAccess(u, o)
              /\ \A f \in FieldNames : FieldPermissionRow(ProfileOfUser(u), o, f) = {})
                => /\ get_visible_fields(u, o) = {}
                   /\ \A f \in FieldNames, t \in FieldPermissionTypes :
                         has_field_permission(u, o, f, t) = "false"
      ]_vars

\* The caller has full CRUD on accounts and a share of record 1, no field
\* row, and get_visible_fields has just returned the empty array.
C21_Witness ==
    /\ ret.fn = "get_visible_fields"
    /\ ret.checking_user_id = auth_uid
    /\ FullObjectAccess(ret.checking_user_id, ret.object_name)
    /\ has_object_permission(ret.checking_user_id, ret.object_name, "read") = "true"
    /\ ManualShareRow(ret.object_name, 1, ret.checking_user_id) # {}
    /\ profile_field_permissions = {}
    /\ ret.result = {}

\* ------------------------------------------------ enumerations: the runs
\* The lookups are called with permission types inside and outside their
\* enumerations, and the administrator writes defaults and shares with
\* values inside and outside the CHECK constraints of the columns.
NextEnum ==
    \/ \E u \in {1, 2} : Login(u)
    \/ \E cr \in BOOLEAN, cw \in BOOLEAN :
          InsertObjectPermission(2, "accounts", cw, cr, cw, cw)
    \/ DeleteObjectPermission(2, "accounts")
    \/ \E f \in FieldNames, c \in BOOLEAN : InsertFieldPermission(2, "accounts", f, c, c)
    \/ \E f \in FieldNames : DeleteFieldPermission(2, "accounts", f)
    \/ \E v \in DefaultAccessValues \cup {"controlled_by_parent"} :
          SetOrgWideDefault(1, "accounts", v)
    \/ \E level \in AccessLevels \cup {"owner"} :
          InsertManualShare(1, "accounts", 1, 1, 2, level)
    \/ \E t \in PermissionTypes : CallHasObjectPermission(2, "accounts", t)
    \/ \E f \in FieldNames, t \in FieldPermissionTypes :
          CallHasFieldPermission(2, "accounts", f, t)
    \/ CallGetOwdAccess(1, "accounts")
    \/ CallHasManualShare(2, 1, "accounts")

EnumSpec == InitPerm /\ [][NextEnum]_vars

\* C22: the enumerations are closed and fall back to deny.  A permission
\* type other than create, read, update and delete makes
\* has_object_permission false, a mode other than read and edit makes
\* has_field_permission false, whatever the flags of the row; and no default
\* or access level outside its enumeration is ever stored or returned.
C22_ClosedEnumerations ==
    /\ (/\ ret.fn = "has_object_permission"
        /\ ret.permission_type \notin {"create", "read", "update", "delete"})
          => ret.result = "false"
    /\ (/\ ret.fn = "has_field_permission"
        /\ ret.permission_type \notin {"read", "edit"})
          => ret.result = "false"
    /\ ret.fn = "get_owd_access" => ret.result \in DefaultAccessValues \cup {"null"}
    /\ \A row \in org_wide_defaults : row.default_access \in DefaultAccessValues
    /\ \A row \in manual_shares : row.access_level \in AccessLevels

\* The caller's profile holds every flag of the object, and the lookup of
\* an unknown permission type has just answered false.
C22_Witness ==
    /\ ret.fn = "has_object_permission"
    /\ ret.checking_user_id = auth_uid
    /\ ret.permission_type = "purge"
    /\ FullObjectAccess(ret.checking_user_id, ret.object_name)
    /\ ret.result = "false"

RolesAfterDelete(gone) ==
    [r \in DOMAIN roles \ gone |->
        [roles[r] EXCEPT !.parent_role_id = IF @ \in gone THEN NULL ELSE @]]

UsersAfterDelete_keeping_role(goneUsers, goneRoles) ==
    [u \in DOMAIN users \ goneUsers |-> users[u]]

\* system.users without the users of goneUsers; a holder of a gone role
\* loses its role.
UsersAfterDelete(goneUsers, goneRoles) ==
    [u \in DOMAIN users \ goneUsers |->
        [users[u] EXCEPT !.role_id = IF @ \in goneRoles THEN NULL ELSE @]]

\* The rows that stay in the heap keep their order.
Compacted(rules) ==
    {[row EXCEPT !.scan_pos =
         Cardinality({other \in rules : other.scan_pos <= row.scan_pos})]
        : row \in rules}

\* users.profile_id ON DELETE RESTRICT: the delete of a profile raises while
\* a user row names it.  The cascade of an organization reaches its profiles
\* before its users, so it raises on the same condition.
ProfileRestricted(goneProfiles) ==
    \E u \in DOMAIN users : users[u].profile_id \in goneProfiles

\* The tables after the delete of the given organizations, profiles, roles
\* and users, every foreign key action taken.
CascadeDelete(goneOrgs, goneProfiles, goneRoles, goneUsers) ==
    /\ organizations' = organizations \ goneOrgs
    /\ profiles' = [p \in DOMAIN profiles \ goneProfiles |-> profiles[p]]
    /\ roles' = RolesAfterDelete(goneRoles)
    /\ users' = UsersAfterDelete(goneUsers, goneRoles)
    /\ profile_object_permissions' =
          {row \in profile_object_permissions : row.profile_id \notin goneProfiles}
    /\ profile_field_permissions' =
          {row \in profile_field_permissions : row.profile_id \notin goneProfiles}
    /\ org_wide_defaults' = {row \in org_wide_defaults : row.org_id \notin goneOrgs}
    /\ sharing_rules' = Compacted({row \in sharing_rules :
                                      /\ row.org_id \notin goneOrgs
                                      /\ row.shared_to_role_id \notin goneRoles})
    /\ manual_shares' = {row \in manual_shares :
                            /\ row.org_id \notin goneOrgs
                            /\ row.shared_by_user_id \notin goneUsers
                            /\ row.shared_to_user_id \notin goneUsers}

\* DELETE FROM system.roles WHERE role_id = r
DeleteRole(r) ==
    /\ current_user_is_system_admin
    /\ walk.status = "idle"
    /\ r \in DOMAIN roles
    /\ CascadeDelete({}, {}, {r}, {})
    /\ ret' = NoCall
    /\ UNCHANGED <<recycle, variable_conflict, session, app_metadata, walk, txn>>

\* DELETE FROM system.profiles WHERE profile_id = p
DeleteProfile(p) ==
    /\ current_user_is_system_admin
    /\ p \in DOMAIN profiles
    /\ ~ProfileRestricted({p})
    /\ CascadeDelete({}, {p}, {}, {})
    /\ ret' = NoCall
    /\ UNCHANGED <<recycle, variable_conflict, session, app_metadata, walk, txn>>

\* DELETE FROM system.organizations WHERE org_id = o
DeleteOrganization(o) ==
    /\ current_user_is_system_admin
    /\ walk.status = "idle"
    /\ o \in organizations
    /\ ~ProfileRestricted({p \in DOMAIN profiles : profiles[p].org_id = o})
    /\ CascadeDelete({o},
                     {p \in DOMAIN profiles : profiles[p].org_id = o},
                     {r \in DOMAIN roles : roles[r].org_id = o},
                     {u \in DOMAIN users : users[u].org_id = o})
    /\ ret' = NoCall
    /\ UNCHANGED <<recycle, variable_conflict, session, app_metadata, walk, txn>>

\* UPDATE system.users SET org_id = o, profile_id = p WHERE user_id = u.
\* The only trigger that writes the app_metadata is AFTER INSERT, so the
\* claims of the user stay as they were.
UpdateUser(u, o, p) ==
    /\ current_user_is_system_admin
    /\ u \in DOMAIN users
    /\ o \in organizations
    /\ p \in DOMAIN profiles
    /\ users' = [users EXCEPT ![u].org_id = o, ![u].profile_id = p]
    /\ ret' = NoCall
    /\ UNCHANGED <<recycle, organizations, app_metadata, variable_conflict,
                   session, profiles, roles, permTables, shareTables, walk, txn>>

\* Roles 1 -> 2 -> 3 ..., the last one of organization 2; user 2 holds role
\* 2 and user 3, of organization 2, the last role.
DeleteRoles == [RoleChain EXCEPT ![MaxRoles].org_id = 2]
DeleteUsers == [SeedUsers EXCEPT ![2].role_id = 2, ![3].role_id = MaxRoles]

InitDelete ==
    /\ variable_conflict \in VariableConflictModes
    /\ session = AdminSession
    /\ profiles = SeedProfiles
    /\ users = DeleteUsers
    /\ roles = DeleteRoles
    /\ profile_object_permissions = {}
    /\ profile_field_permissions = {}
    /\ org_wide_defaults = {}
    /\ sharing_rules = {}
    /\ manual_shares = {}
    /\ ret = NoCall
    /\ walk = NoWalk
    /\ txn = NoTxn
    /\ InitStore

NextDelete ==
    \/ \E p \in {2, 3} : InsertObjectPermission(p, "accounts", TRUE, TRUE, TRUE, TRUE)
    \/ \E p \in {2, 3} : InsertFieldPermission(p, "accounts", "name", TRUE, TRUE)
    \/ \E role \in RoleIds :
          InsertSharingRule(1, "accounts", "r1", "ownership_based", role, TRUE, "read", TRUE)
    \/ UpdateUser(3, 1, 2)
    \/ \E r \in RoleIds : DeleteRole(r)
    \/ \E p \in ProfileIds : DeleteProfile(p)
    \/ \E o \in OrgIds : DeleteOrganization(o)
    \/ \E owner \in {1, 3} : CallCanAccessViaRole(2, owner)
    \/ CallHasSharingRuleAccess(2, 3, "accounts")

DeleteSpec == InitDelete /\ [][NextDelete]_vars

InsertUser(u, o, p, r) ==
    /\ current_user_is_system_admin
    /\ u \in UserIds \ DOMAIN users
    /\ o \in organizations
    /\ p \in DOMAIN profiles
    /\ r \in DOMAIN roles \cup {NULL}
    /\ users' = [x \in DOMAIN users \cup {u} |->
                    IF x = u THEN [org_id |-> o, profile_id |-> p, role_id |-> r]
                    ELSE users[x]]
    /\ app_metadata' = handle_user_org_metadata(app_metadata, u,
                          [org_id |-> o, profile_id |-> p, role_id |-> r])
    /\ ret' = NoCall
    /\ UNCHANGED <<recycle, organizations, variable_conflict, session, profiles,
                   roles, permTables, shareTables, walk, txn>>

\* Only the administrator has a row in system.users yet.
InitMeta ==
    /\ variable_conflict = "error"
    /\ session = AdminSession
    /\ profiles = SeedProfiles
    /\ users = [u \in {1} |-> SeedUsers[u]]
    /\ roles = <<>>
    /\ profile_object_permissions = {}
    /\ profile_field_permissions = {}
    /\ org_wide_defaults = {}
    /\ sharing_rules = {}
    /\ manual_shares = {}
    /\ ret = NoCall
    /\ walk = NoWalk
    /\ txn = NoTxn
    /\ organizations = OrgIds
    /\ app_metadata = [NoMetadata EXCEPT ![1] = SeedMetadata[1]]
    /\ deletion_batches = {}
    /\ deleted_records = {}

NextMeta ==
    \/ \E u \in {2, 3}, o \in OrgIds, p \in ProfileIds : InsertUser(u, o, p, NULL)
    \/ \E u \in {2, 3}, o \in OrgIds, p \in ProfileIds : UpdateUser(u, o, p)
    \/ \E u \in {2, 3} : CallHasObjectPermission(u, "accounts", "read")

MetaSpec == InitMeta /\ [][NextMeta]_vars

\* C29: the trusted claims agree with storage: after any sequence of inserts
\* and updates of system.users rows, the org_id and profile_id in a user's
\* app_metadata are those of the user's row.
C29_ClaimsMatchStorage ==
    \A u \in DOMAIN users :
        /\ app_metadata[u].org_id = users[u].org_id
        /\ app_metadata[u].profile_id = users[u].profile_id

\* ---------------------------------------------------------- the recycle bin
\* recycle.soft_delete_record(p_schema, p_table, p_record_id, p_batch_id) is
\* SECURITY DEFINER and EXECUTE is granted to authenticated: it runs with
\* the rights of its owner for any signed-in caller, on any table with a
\* primary key.  The tables here are system.roles and system.profiles.
TableRows(p_table) ==
    IF p_table = "roles" THEN roles
    ELSE IF p_table = "profiles" THEN profiles
    ELSE <<>>

\* v_deletion_order := recycle.get_next_deletion_order(v_batch_id)
get_next_deletion_order(p_batch_id) ==
    Cardinality({d \in deleted_records : d.batch_id = p_batch_id}) + 1

\* The function body: the caller's org_id is read from system.users, the row
\* is copied to recycle.deleted_records under a new or a given batch, and
\* the row is deleted, its foreign key actions taken.  Every RAISE, and a
\* foreign key that refuses the insert or the delete, rolls the call back.
soft_delete_record(p_table, p_record_id, p_batch_id) ==
    LET v_user_id == auth_uid
        v_org_id == OrgOfUser(v_user_id)
        v_batch_id == IF p_batch_id = NULL
                      THEN Cardinality(deletion_batches) + 1
                      ELSE p_batch_id
        raises ==
            \/ v_org_id = NULL
            \/ p_record_id \notin DOMAIN TableRows(p_table)
            \/ p_batch_id # NULL /\ ~\E b \in deletion_batches : b.id = p_batch_id
            \/ p_table = "profiles" /\ ProfileRestricted({p_record_id})
    IN IF raises
       THEN /\ ret' = [fn |-> "soft_delete_record", p_table |-> p_table,
                       p_record_id |-> p_record_id, result |-> "error"]
            /\ UNCHANGED <<recycle, organizations, profiles, users, roles,
                           permTables, shareTables>>
       ELSE /\ deletion_batches' =
                  IF p_batch_id = NULL
                  THEN deletion_batches \cup
                          {[id |-> v_batch_id, deleted_by |-> v_user_id,
                            org_id |-> v_org_id]}
                  ELSE deletion_batches
            /\ deleted_records' = deleted_records \cup
                  {[batch_id |-> v_batch_id, table_name |-> p_table,
                    record_id |-> p_record_id,
                    record_data |-> TableRows(p_table)[p_record_id],
                    deletion_order |-> get_next_deletion_order(v_batch_id)]}
            /\ IF p_table = "roles"
               THEN CascadeDelete({}, {}, {p_record_id}, {})
               ELSE CascadeDelete({}, {p_record_id}, {}, {})
            /\ ret' = [fn |-> "soft_delete_record", p_table |-> p_table,
                       p_record_id |-> p_record_id, result |-> "deleted"]

\* supabase.schema('recycle').rpc('soft_delete_record', ...) by the session.
CallSoftDeleteRecord(p_table, p_record_id, p_batch_id) ==
    /\ walk.status = "idle"
    /\ soft_delete_record(p_table, p_record_id, p_batch_id)
    /\ UNCHANGED <<variable_conflict, session, app_metadata, walk, txn>>

\* The standard user of organization 1 is signed in; roles 1 -> 2 -> 3 and
\* the seed profiles are stored and no permission row names them.
InitRecycle ==
    /\ variable_conflict = "error"
    /\ session = [uid |-> 2, org_id |-> 1, profile_id |-> 2]
    /\ profiles = SeedProfiles
    /\ users = DeleteUsers
    /\ roles = DeleteRoles
    /\ profile_object_permissions = {}
    /\ profile_field_permissions = {}
    /\ org_wide_defaults = {}
    /\ sharing_rules = {}
    /\ manual_shares = {}
    /\ ret = NoCall
    /\ walk = NoWalk
    /\ txn = NoTxn
    /\ InitStore

NextRecycle ==
    \/ \E u \in {1, 2} : Login(u)
    \/ \E cd \in BOOLEAN : InsertObjectPermission(2, "roles", FALSE, TRUE, FALSE, cd)
    \/ \E t \in {"roles", "profiles"}, id \in RoleIds, b \in {NULL, 1} :
          CallSoftDeleteRecord(t, id, b)

RecycleSpec == InitRecycle /\ [][NextRecycle]_vars

NextWrite ==
    \/ \E u \in {1, 2} : Login(u)
    \/ UpdateRoleParent(3, NULL)
    \/ InsertObjectPermission(2, "accounts", FALSE, TRUE, FALSE, FALSE)
    \/ InsertFieldPermission(2, "accounts", "name", TRUE, FALSE)
    \/ SetOrgWideDefault(1, "accounts", "private")
    \/ InsertSharingRule(1, "accounts", "r1", "ownership_based", 1, TRUE, "read", TRUE)
    \/ InsertManualShare(1, "accounts", 1, 1, 2, "read")
    \/ DeleteRole(3)
    \/ \E id \in {1, 2} : CallSoftDeleteRecord("roles", id, NULL)

WriteSpec == InitRecycle /\ [][NextWrite]_vars

get_user_org == session.org_id

\* What the session may SELECT of system.roles: the policies "Users see org
\* roles" and "System Administrators have full access to roles" are both
\* permissive, so either admits the row.
RoleSelectable(r) ==
    \/ roles[r].org_id = get_user_org
    \/ current_user_is_system_admin

\* The rows of a roles table that belong to another organization than org.
ForeignRoles(tbl, org) ==
    [r \in {x \in DOMAIN tbl : tbl[x].org_id # org} |-> tbl[r]]

\* C25: organizations are isolated by the policies: whatever the profile or
\* role of the signed-in user, no row of another organization than the
\* user's is visible to the session, and no step of the session inserts,
\* changes or removes such a row (shown on system.roles).
C25_OrganizationIsolation ==
    [][session.uid # NULL =>
          /\ \A r \in DOMAIN roles : RoleSelectable(r) => roles[r].org_id = get_user_org
          /\ ForeignRoles(roles', get_user_org) = ForeignRoles(roles, get_user_org)
      ]_vars

====
